---- MODULE Spec2Model ----
(***************************************************************************)
(* Hierarchical to-do list: the completion-cascade engine over the task   *)
(* forest (backend, spec.md 4.2) and the Dashboard client that mutates    *)
(* and re-fetches the forest (frontend/src/pages/Dashboard.jsx).          *)
(***************************************************************************)
EXTENDS Integers, Sequences, FiniteSets, TLC

\* ------------------------------------------------------------------------
\* Bounds
\* ------------------------------------------------------------------------

\* number of task ids of the forests the cascade engine is exercised on
TreeSize == 4

\* requests the Dashboard user may start after the mount (each is one
\* mutating call, possibly followed by the refresh its handler issues)
MaxReq == 1

\* distinct list names the user types (lists start with name 0)
NumNames == 1

\* tasks of the forests the selection sync is exercised on
ReconcileTasks == 3

\* deletions another session of the same account may perform
MaxOther == 1

\* number of task ids of the forests subtasks are created in
CreateSize == 3

\* subtasks created in those forests
MaxNew == 1

\* successful sign-ins per page load
MaxLogin == 2

\* "no value" (JavaScript null), also the parent of a top-level task
NULL == 0

VARIABLES
  tasks,          \* authoritative forest: task id -> [list, parent, completed]
  call,           \* the last toggleCompletion call and its result
  allCascade,     \* TRUE while every toggleCompletion call so far had cascade=true
  creation,       \* the last subtask creation, when it was the last operation
  srvLists,       \* server: sequence of [id, name], in creation order
  nextList,       \* server: next list id
  nextTask,       \* server: next task id
  lists,          \* Dashboard state: the forest of the last applied fetch
  selectedList,   \* Dashboard state: selected list object, or NoList
  selectedTask,   \* Dashboard state: selected task object, or NoTask
  modal,          \* which of the show...Modal flags is set, or "none"
  listToEdit,     \* Dashboard state: id of the list being edited
  subtaskParentId,\* Dashboard state: parent of the subtask being created
  taskToMove,     \* Dashboard state: task object chosen for a move
  activeTab,      \* Dashboard state: "active" or "completed"
  collapsedTasks, \* Dashboard state: the task ids whose collapsed flag is set
  currentUser,    \* Dashboard state: the profile of /api/auth/me, or "none"
  invalid,        \* the form whose required field shows the browser's message
  alert,          \* the message of the last alert() shown, or "none"
  loading,        \* AuthProvider state: the stored session is not read yet
  user,           \* AuthProvider state: the user object, or NoUser (null)
  token,          \* localStorage access_token: a string, or "none" (absent)
  userStr,        \* localStorage user: a string, or "none" (absent)
  session,        \* the arguments of the latest login() no logout() followed
  location,       \* the router's path
  authGuard,      \* position of the Dashboard's auth guard effect
  reqs,           \* handler invocations awaiting their fetch() promise
  clock,          \* number of requests issued so far
  started,        \* number of requests the user has started
  others,         \* number of deletions done by another session
  newest,         \* the latest-issued fetch whose response has been applied
  last            \* what the last step was

cascadeVars == <<tasks, call, allCascade, creation>>
serverVars == <<srvLists, nextList, nextTask>>
selectionVars == <<lists, selectedList, selectedTask>>
modalVars == <<modal, listToEdit, subtaskParentId, taskToMove>>
viewVars == <<activeTab, collapsedTasks>>
authVars == <<loading, user, token, userStr, session, location, authGuard,
              currentUser>>
vars == <<tasks, call, allCascade, creation, srvLists, nextList, nextTask,
          lists, selectedList, selectedTask, modal, listToEdit,
          subtaskParentId, taskToMove, activeTab, collapsedTasks, currentUser,
          invalid, alert, loading, user, token, userStr, session, location,
          authGuard, reqs, clock, started, others, newest, last>>

\* ------------------------------------------------------------------------
\* Task Tree Model (spec.md 3, 4.1)
\* ------------------------------------------------------------------------

Children(T, p) == {c \in DOMAIN T : T[c].parent = p}

RECURSIVE Descendants(_, _)
Descendants(T, t) ==
  LET cs == Children(T, t)
  IN  cs \cup UNION {Descendants(T, c) : c \in cs}

RECURSIVE Ancestors(_, _)
Ancestors(T, t) ==
  IF T[t].parent = NULL THEN {}
  ELSE {T[t].parent} \cup Ancestors(T, T[t].parent)

AllChildrenComplete(T, p) == \A c \in Children(T, p) : T[c].completed

\* ------------------------------------------------------------------------
\* Completion Cascade Engine (spec.md 4.2)
\* ------------------------------------------------------------------------

\* variant of step 2 that completes the direct children only
markDescendants_ChildrenOnly(T, t) ==
  [x \in DOMAIN T |->
     IF x \in Children(T, t) THEN [T[x] EXCEPT !.completed = TRUE] ELSE T[x]]

\* variant of step 2 that also completes the target's siblings and their
\* subtrees
markDescendants_AndSiblings(T, t) ==
  [x \in DOMAIN T |->
     IF x \in Descendants(T, t)
          \/ (T[t].parent # NULL /\ x \in Descendants(T, T[t].parent) \ {t})
     THEN [T[x] EXCEPT !.completed = TRUE] ELSE T[x]]

\* step 2: force every descendant's completed flag to true
markDescendants(T, t) ==
  [x \in DOMAIN T |->
     IF x \in Descendants(T, t) THEN [T[x] EXCEPT !.completed = TRUE] ELSE T[x]]

\* variant of the rule that auto-completes but never un-completes
derivedValue_NoUncomplete(T, p) ==
  IF AllChildrenComplete(T, p) THEN TRUE ELSE T[p].completed

\* step 3, the value the rule derives for ancestor p
derivedValue(T, p) ==
  IF AllChildrenComplete(T, p) THEN TRUE
  ELSE IF T[p].completed THEN FALSE
  ELSE T[p].completed

\* variant of step 3 that re-derives the parent and goes no further
updateParentCompletion_ParentOnly(T, child) ==
  LET p == T[child].parent
  IN  IF p = NULL THEN T
      ELSE [T EXCEPT ![p].completed = derivedValue(T, p)]

\* step 3 without its early stop: the rule applied at every ancestor from
\* child's parent up to the root
RECURSIVE rederiveToRoot(_, _)
rederiveToRoot(T, child) ==
  LET p == T[child].parent
  IN  IF p = NULL THEN T
      ELSE rederiveToRoot([T EXCEPT ![p].completed = derivedValue(T, p)], p)

\* step 3: walk from child's parent towards the root, stop at the first
\* ancestor whose value does not change
RECURSIVE updateParentCompletion(_, _)
updateParentCompletion(T, child) ==
  LET p == T[child].parent
  IN  IF p = NULL THEN T
      ELSE IF derivedValue(T, p) = T[p].completed THEN T
      ELSE updateParentCompletion(
             [T EXCEPT ![p].completed = derivedValue(T, p)], p)

\* step 4: ids touched: self, forced descendants, ancestors whose flag changed
changedIds(T, T3, t, newValue, cascade) ==
  {t} \cup (IF cascade /\ newValue THEN Descendants(T, t) ELSE {})
      \cup {a \in Ancestors(T, t) : T3[a].completed # T[a].completed}

\* variant that flips the task's flag instead of setting it to newValue
toggleCompletion_Flip(T, t, newValue, cascade) ==
  LET T1 == [T EXCEPT ![t].completed = ~T[t].completed]
      T2 == IF cascade /\ newValue THEN markDescendants(T1, t) ELSE T1
      T3 == updateParentCompletion(T2, t)
  IN  [tree |-> T3, changed |-> changedIds(T, T3, t, newValue, cascade)]

toggleCompletion(T, t, newValue, cascade) ==
  LET T1 == [T EXCEPT ![t].completed = newValue]
      T2 == IF cascade /\ newValue THEN markDescendants(T1, t) ELSE T1
      T3 == updateParentCompletion(T2, t)
  IN  [tree |-> T3, changed |-> changedIds(T, T3, t, newValue, cascade)]

\* steps 1 and 2, then the re-derivation at every ancestor up to the root
toggleToRoot(T, t, newValue, cascade) ==
  LET T1 == [T EXCEPT ![t].completed = newValue]
      T2 == IF cascade /\ newValue THEN markDescendants(T1, t) ELSE T1
  IN  rederiveToRoot(T2, t)

\* variant of the creation that leaves the ancestors as they were
addSubtask_NoRederive(T, p, id) ==
  T @@ (id :> [list |-> T[p].list, parent |-> p, completed |-> FALSE])

\* a new, incomplete subtask id under p, then the upward re-derivation of
\* step 3 from the new task (spec.md 4.1)
addSubtask(T, p, id) ==
  updateParentCompletion(
    T @@ (id :> [list |-> T[p].list, parent |-> p, completed |-> FALSE]), id)

\* ------------------------------------------------------------------------
\* Server: lists and tasks API (spec.md 6)
\* ------------------------------------------------------------------------

Names == 1..NumNames

NoList == [id |-> NULL, name |-> NULL, tasks |-> <<>>]
NoTask == [id |-> NULL, parent |-> NULL, completed |-> FALSE]

ListIds(ls) == {ls[i].id : i \in DOMAIN ls}

Restrict(T, S) == [t \in S |-> T[t]]

TasksOf(T, l) == Restrict(T, {x \in DOMAIN T : T[x].list = l})

WithoutList(L, l) == SelectSeq(L, LAMBDA x : x.id # l)

\* GET /api/lists: every list with its fully nested tasks
getLists(L, T) ==
  [i \in DOMAIN L |->
     [id |-> L[i].id, name |-> L[i].name, tasks |-> TasksOf(T, L[i].id)]]

\* the request is accepted by the server in its current state
serverAccepts(r) ==
  CASE r.op \in {"fetch", "me", "createList"} -> TRUE
    [] r.op \in {"editList", "deleteList", "createTask"} ->
         r.a \in ListIds(srvLists)
    [] r.op \in {"createSubtask", "toggle", "deleteTask"} ->
         r.a \in DOMAIN tasks
    [] r.op = "move" ->
         /\ r.a \in DOMAIN tasks
         /\ tasks[r.a].parent = NULL
         /\ r.b \in ListIds(srvLists)

\* the server's lists after the request
serverLists(r) ==
  CASE r.op = "createList" ->
         Append(srvLists, [id |-> nextList, name |-> r.b])
    [] r.op = "editList" ->
         [i \in DOMAIN srvLists |->
            IF srvLists[i].id = r.a
            THEN [srvLists[i] EXCEPT !.name = r.b] ELSE srvLists[i]]
    [] r.op = "deleteList" -> WithoutList(srvLists, r.a)
    [] OTHER -> srvLists

\* the server's forest after the request
serverTasks(r) ==
  CASE r.op = "deleteList" ->
         Restrict(tasks, {t \in DOMAIN tasks : tasks[t].list # r.a})
    [] r.op = "createTask" ->
         tasks @@ (nextTask :> [list |-> r.a, parent |-> NULL,
                                completed |-> FALSE])
    [] r.op = "createSubtask" -> addSubtask(tasks, r.a, nextTask)
    [] r.op = "toggle" -> toggleCompletion(tasks, r.a, r.b = 1, TRUE).tree
    [] r.op = "deleteTask" ->
         Restrict(tasks, DOMAIN tasks \ ({r.a} \cup Descendants(tasks, r.a)))
    [] r.op = "move" ->
         [t \in DOMAIN tasks |->
            IF t \in {r.a} \cup Descendants(tasks, r.a)
            THEN [tasks[t] EXCEPT !.list = r.b] ELSE tasks[t]]
    [] OTHER -> tasks

\* ------------------------------------------------------------------------
\* Dashboard: selection sync (Dashboard.jsx, useEffect([lists]))
\* ------------------------------------------------------------------------

\* the ids of S in increasing order (insertion order of the tasks)
RECURSIVE SortedSeq(_)
SortedSeq(S) ==
  IF S = {} THEN <<>>
  ELSE LET m == CHOOSE x \in S : \A y \in S : x <= y
       IN  <<m>> \o SortedSeq(S \ {m})

\* depth-first search of selected task id over the nested tasks ts of F
RECURSIVE findTaskInList(_, _, _)
findTaskInList(F, ts, id) ==
  IF ts = <<>> THEN NULL
  ELSE IF Head(ts) = id THEN Head(ts)
  ELSE LET subtasks == SortedSeq(Children(F, Head(ts)))
           found == IF Len(subtasks) > 0
                    THEN findTaskInList(F, subtasks, id) ELSE NULL
       IN  IF found # NULL THEN found
           ELSE findTaskInList(F, Tail(ts), id)

taskObject(F, t) ==
  [id |-> t, parent |-> F[t].parent, completed |-> F[t].completed]

\* variant of the effect that keeps the objects it finds selected
syncSelection_KeepsObject(ls, sl, st) == [list |-> sl, task |-> st]

\* the selection after the effect ran on the new lists ls
syncSelection(ls, sl, st) ==
  IF sl # NoList /\ Len(ls) > 0
  THEN LET hits == {i \in DOMAIN ls : ls[i].id = sl.id}
       IN  IF hits # {}
           THEN LET updatedList == ls[CHOOSE i \in hits : \A j \in hits : i <= j]
                    F == updatedList.tasks
                    updatedTask ==
                      IF st # NoTask
                      THEN findTaskInList(F, SortedSeq(Children(F, NULL)), st.id)
                      ELSE NULL
                IN  [list |-> updatedList,
                     task |-> IF updatedTask # NULL
                              THEN taskObject(F, updatedTask) ELSE st]
           ELSE [list |-> sl, task |-> st]
  ELSE [list |-> sl, task |-> st]

\* ------------------------------------------------------------------------
\* Dashboard: what is rendered (getListTasks, getTaskCounts, TaskItem)
\* ------------------------------------------------------------------------

Tabs == {"active", "completed"}

\* selectedList.tasks: the top-level tasks of the list, in order
allTasks(sl) == SortedSeq(Children(sl.tasks, NULL))

\* variant whose Completed tab does not filter
getListTasks_CompletedShowsAll(sl, tab) ==
  IF sl = NoList THEN <<>>
  ELSE IF tab = "active"
       THEN SelectSeq(allTasks(sl), LAMBDA t : ~sl.tasks[t].completed)
       ELSE allTasks(sl)

\* the top-level tasks displayed under the tab
getListTasks(sl, tab) ==
  IF sl = NoList THEN <<>>
  ELSE IF tab = "active"
       THEN SelectSeq(allTasks(sl), LAMBDA t : ~sl.tasks[t].completed)
       ELSE SelectSeq(allTasks(sl), LAMBDA t : sl.tasks[t].completed)

\* variant that counts the subtasks too
getTaskCounts_Deep(sl) ==
  IF sl = NoList THEN [active |-> 0, completed |-> 0]
  ELSE [active |->
          Cardinality({t \in DOMAIN sl.tasks : ~sl.tasks[t].completed}),
        completed |->
          Cardinality({t \in DOMAIN sl.tasks : sl.tasks[t].completed})]

\* the numbers of the two tab badges
getTaskCounts(sl) ==
  IF sl = NoList THEN [active |-> 0, completed |-> 0]
  ELSE [active |->
          Len(SelectSeq(allTasks(sl), LAMBDA t : ~sl.tasks[t].completed)),
        completed |->
          Len(SelectSeq(allTasks(sl), LAMBDA t : sl.tasks[t].completed))]

\* TaskItem of t: t itself and, unless t is collapsed, the TaskItems of its
\* subtasks
RECURSIVE TaskItem(_, _, _)
TaskItem(F, collapsed, t) ==
  {t} \cup (IF t \in collapsed THEN {}
            ELSE UNION {TaskItem(F, collapsed, c) : c \in Children(F, t)})

\* the tasks whose buttons are on the page
rendered ==
  LET top == getListTasks(selectedList, activeTab)
  IN  UNION {TaskItem(selectedList.tasks, collapsedTasks, top[i]) :
               i \in DOMAIN top}

\* ------------------------------------------------------------------------
\* Dashboard: requests
\* ------------------------------------------------------------------------

Ops == {"createList", "editList", "deleteList", "createTask",
        "createSubtask", "toggle", "deleteTask", "move"}

\* the empty string, a text outside Names
Blank == NumNames + 1

\* what a required text field may hold when its form is submitted
Texts == Names \cup {Blank}

\* strings login() may be given as token: the empty string, a token the
\* server accepts and one it does not
Tokens == {"", "good", "stale"}

\* values login() may be given as userData: the user field of a response
\* (absent, null or an object)
UserDatas == {"undefined", "null", "alice", "bob"}

\* no login() since the page was opened or since the last logout()
NoSession == [token |-> "none", data |-> "none"]

\* useState(null)
NoUser == [token |-> "none", fields |-> "none"]

\* { token, ...userData }: spreading null or undefined adds no field
spread(t, d) ==
  [token |-> t, fields |-> IF d \in {"undefined", "null"} THEN "{}" ELSE d]

\* the string setItem('user', JSON.stringify(userData)) stores:
\* JSON.stringify(undefined) is undefined, which setItem stores as
\* "undefined"
JSON_stringify(d) ==
  CASE d = "undefined" -> "undefined"
    [] d = "null" -> "null"
    [] d = "alice" -> "{alice}"
    [] d = "bob" -> "{bob}"

\* JSON.parse(s) returns instead of throwing a SyntaxError
JSON_parses(s) == s \in {"null", "{alice}", "{bob}"}

JSON_parse(s) ==
  CASE s = "null" -> "null"
    [] s = "{alice}" -> "alice"
    [] s = "{bob}" -> "bob"

\* a getItem() result that is neither null nor the empty string
truthy(s) == s \notin {"none", ""}

\* isAuthenticated() of the auth context
isAuthenticated == user # NoUser /\ truthy(token)

\* the Dashboard is on the page, past its loading indicator
dashboardShown == location = "/dashboard" /\ authGuard = "loaded"

\* a handler calls fetch(): the request carries the stored token and closes
\* over the selectedList of the render the handler belongs to
request(op, a, b) ==
  [seq |-> clock + 1, op |-> op, a |-> a, b |-> b, sel |-> selectedList.id,
   stage |-> "sent", data |-> <<>>, by |-> op, token |-> token]

\* fetchLists() called from the continuation of request r
fetchLists(r) ==
  [seq |-> clock + 1, op |-> "fetch", a |-> NULL, b |-> NULL, sel |-> r.sel,
   stage |-> "sent", data |-> <<>>, by |-> r.op, token |-> token]

\* the user starts a mutating request
issue(op, a, b) ==
  /\ dashboardShown
  /\ started < MaxReq
  /\ reqs' = reqs \cup {request(op, a, b)}
  /\ clock' = clock + 1
  /\ started' = started + 1
  /\ invalid' = "none"
  /\ last' = [kind |-> "issue", op |-> op, how |-> "none"]
  /\ UNCHANGED <<cascadeVars, serverVars, viewVars, authVars, alert, others,
                 newest>>

\* a click that only changes Dashboard state
click ==
  /\ dashboardShown
  /\ UNCHANGED last
  /\ UNCHANGED <<cascadeVars, serverVars, authVars, alert, reqs, clock,
                 started, others, newest>>

\* ------------------------------------------------------------------------
\* Dashboard: user actions (a modal overlay covers the page while open)
\* ------------------------------------------------------------------------

\* variant of the click that also opens the first task of the list
SelectList_OpensFirstTask(i) ==
  /\ modal = "none"
  /\ selectedList' = lists[i]
  /\ selectedTask' =
       IF DOMAIN lists[i].tasks = {} THEN NoTask
       ELSE taskObject(lists[i].tasks,
                       CHOOSE t \in DOMAIN lists[i].tasks :
                         \A u \in DOMAIN lists[i].tasks : t <= u)
  /\ click
  /\ UNCHANGED <<lists, modalVars, viewVars, invalid>>

\* collection-item onClick
SelectList(i) ==
  /\ modal = "none"
  /\ selectedList' = lists[i]
  /\ selectedTask' = NoTask
  /\ click
  /\ UNCHANGED <<lists, modalVars, viewVars, invalid>>

\* tab-btn onClick
setActiveTab(tab) ==
  /\ modal = "none"
  /\ selectedList # NoList
  /\ activeTab' = tab
  /\ click
  /\ UNCHANGED <<selectionVars, modalVars, collapsedTasks, invalid>>

\* collapse-btn onClick, on a rendered task that has subtasks
toggleCollapse(taskId) ==
  /\ modal = "none"
  /\ taskId \in rendered
  /\ Children(selectedList.tasks, taskId) # {}
  /\ collapsedTasks' = IF taskId \in collapsedTasks
                       THEN collapsedTasks \ {taskId}
                       ELSE collapsedTasks \cup {taskId}
  /\ click
  /\ UNCHANGED <<selectionVars, modalVars, activeTab, invalid>>

handleDeleteList(i) ==
  /\ modal = "none"
  /\ issue("deleteList", lists[i].id, NULL)
  /\ UNCHANGED <<selectionVars, modalVars>>

openEditListModal(i) ==
  /\ modal = "none"
  /\ listToEdit' = lists[i].id
  /\ modal' = "editList"
  /\ click
  /\ UNCHANGED <<selectionVars, subtaskParentId, taskToMove, viewVars, invalid>>

\* the Edit List form is submitted with name n in its required field
handleEditList(n) ==
  /\ modal = "editList"
  /\ n # Blank
  /\ listToEdit # NULL
  /\ issue("editList", listToEdit, n)
  /\ UNCHANGED <<selectionVars, modalVars>>

\* variant in which the move button is on every TaskItem
openModal_MoveAnyTask ==
  /\ modal = "none"
  /\ \/ /\ modal' = "newList"
        /\ UNCHANGED <<subtaskParentId, taskToMove>>
     \/ /\ selectedList # NoList
        /\ modal' = "newTask"
        /\ UNCHANGED <<subtaskParentId, taskToMove>>
     \/ \E t \in rendered :
          /\ subtaskParentId' = t
          /\ modal' = "newSubtask"
          /\ UNCHANGED taskToMove
     \/ \E t \in rendered :
          /\ taskToMove' = taskObject(selectedList.tasks, t)
          /\ modal' = "move"
          /\ UNCHANGED subtaskParentId
  /\ click
  /\ UNCHANGED <<selectionVars, listToEdit, viewVars, invalid>>

\* add-collection-btn, add-task-btn, add-subtask-btn, move-btn
openModal ==
  /\ modal = "none"
  /\ \/ /\ modal' = "newList"
        /\ UNCHANGED <<subtaskParentId, taskToMove>>
     \/ /\ selectedList # NoList
        /\ modal' = "newTask"
        /\ UNCHANGED <<subtaskParentId, taskToMove>>
     \/ \E t \in rendered :
          /\ subtaskParentId' = t
          /\ modal' = "newSubtask"
          /\ UNCHANGED taskToMove
     \/ \E t \in rendered :
          /\ selectedList.tasks[t].parent = NULL
          /\ taskToMove' = taskObject(selectedList.tasks, t)
          /\ modal' = "move"
          /\ UNCHANGED subtaskParentId
  /\ click
  /\ UNCHANGED <<selectionVars, listToEdit, viewVars, invalid>>

\* the Cancel button of the open modal
cancelModal ==
  /\ modal # "none"
  /\ modal' = "none"
  /\ subtaskParentId' = IF modal = "newSubtask" THEN NULL ELSE subtaskParentId
  /\ taskToMove' = IF modal = "move" THEN NoTask ELSE taskToMove
  /\ listToEdit' = IF modal = "editList" THEN NULL ELSE listToEdit
  /\ invalid' = "none"
  /\ click
  /\ UNCHANGED <<selectionVars, viewVars>>

\* a form is submitted while its required input is empty: the browser shows
\* its message on the input and does not call onSubmit
submitBlocked(form) ==
  /\ modal = form
  /\ invalid' = form
  /\ click
  /\ UNCHANGED <<selectionVars, modalVars, viewVars>>

\* the New List form is submitted with name n in its required field
handleCreateList(n) ==
  /\ modal = "newList"
  /\ n # Blank
  /\ issue("createList", NULL, n)
  /\ UNCHANGED <<selectionVars, modalVars>>

\* variant of the New Task form whose textarea is not required
handleCreateTask_NotRequired(d) ==
  /\ modal = "newTask"
  /\ selectedList # NoList
  /\ issue("createTask", selectedList.id, d)
  /\ UNCHANGED <<selectionVars, modalVars>>

\* the New Task form is submitted with description d in its required field
handleCreateTask(d) ==
  /\ modal = "newTask"
  /\ d # Blank
  /\ selectedList # NoList
  /\ issue("createTask", selectedList.id, d)
  /\ UNCHANGED <<selectionVars, modalVars>>

\* the New Subtask form is submitted with description d
handleCreateSubtask(d) ==
  /\ modal = "newSubtask"
  /\ d # Blank
  /\ subtaskParentId # NULL
  /\ issue("createSubtask", subtaskParentId, d)
  /\ UNCHANGED <<selectionVars, modalVars>>

\* task-checkbox onClick: handleToggleTask(task.id, task.completed)
handleToggleTask(t) ==
  /\ modal = "none"
  /\ t \in rendered
  /\ issue("toggle", t, IF selectedList.tasks[t].completed THEN 0 ELSE 1)
  /\ UNCHANGED <<selectionVars, modalVars>>

handleDeleteTask(t) ==
  /\ modal = "none"
  /\ t \in rendered
  /\ issue("deleteTask", t, NULL)
  /\ UNCHANGED <<selectionVars, modalVars>>

\* move-list-option onClick, over the lists other than the selected one
handleMoveTask(newListId) ==
  /\ modal = "move"
  /\ newListId \in ListIds(lists) \ {selectedList.id}
  /\ taskToMove # NoTask
  /\ issue("move", taskToMove.id, newListId)
  /\ UNCHANGED <<selectionVars, modalVars>>

\* ------------------------------------------------------------------------
\* Network and server
\* ------------------------------------------------------------------------

\* the server handles a request it accepts and answers ok
serverHandle(r) ==
  /\ r.stage = "sent"
  /\ r.token = "good"
  /\ serverAccepts(r)
  /\ srvLists' = serverLists(r)
  /\ tasks' = serverTasks(r)
  /\ nextList' = IF r.op = "createList" THEN nextList + 1 ELSE nextList
  /\ nextTask' = IF r.op \in {"createTask", "createSubtask"}
                 THEN nextTask + 1 ELSE nextTask
  /\ reqs' = (reqs \ {r}) \cup
       {[r EXCEPT !.stage = "ok",
                  !.data = IF r.op = "fetch"
                           THEN getLists(srvLists, tasks) ELSE <<>>]}
  /\ last' = [kind |-> "server", op |-> r.op, how |-> "ok"]
  /\ UNCHANGED <<call, allCascade, creation, selectionVars, modalVars,
                 viewVars, authVars, invalid, alert, clock, started, others,
                 newest>>

\* the server answers not ok: the target of the request is gone
serverReject(r) ==
  /\ r.stage = "sent"
  /\ r.token = "good"
  /\ ~serverAccepts(r)
  /\ reqs' = (reqs \ {r}) \cup {[r EXCEPT !.stage = "notok"]}
  /\ last' = [kind |-> "server", op |-> r.op, how |-> "notok"]
  /\ UNCHANGED <<cascadeVars, serverVars, selectionVars, modalVars, viewVars,
                 authVars, invalid, alert, clock, started, others, newest>>

\* the server answers not ok: the request does not carry a valid credential
serverUnauthorized(r) ==
  /\ r.stage = "sent"
  /\ r.token # "good"
  /\ reqs' = (reqs \ {r}) \cup {[r EXCEPT !.stage = "unauthorized"]}
  /\ last' = [kind |-> "server", op |-> r.op, how |-> "unauthorized"]
  /\ UNCHANGED <<cascadeVars, serverVars, selectionVars, modalVars, viewVars,
                 authVars, invalid, alert, clock, started, others, newest>>

\* another session of the same account deletes a list
otherSessionDeletes(l) ==
  /\ others < MaxOther
  /\ l \in ListIds(srvLists)
  /\ others' = others + 1
  /\ srvLists' = WithoutList(srvLists, l)
  /\ tasks' = Restrict(tasks, {t \in DOMAIN tasks : tasks[t].list # l})
  /\ last' = [kind |-> "other", op |-> "deleteList", how |-> "none"]
  /\ UNCHANGED <<call, allCascade, creation, nextList, nextTask,
                 selectionVars, modalVars, viewVars, authVars, invalid, alert,
                 reqs, clock, started, newest>>

\* ------------------------------------------------------------------------
\* Dashboard: continuations after the awaited fetch() settles
\* ------------------------------------------------------------------------

closeModal(m) == IF modal = m THEN "none" ELSE modal

\* variant of the ok branch that also expands every task again
fetchListsOk_ResetsCollapse(r) ==
  LET picked == IF Len(r.data) > 0 /\ r.sel = NULL
                THEN r.data[1] ELSE selectedList
      synced == syncSelection(r.data, picked, selectedTask)
  IN  /\ lists' = r.data
      /\ selectedList' = synced.list
      /\ selectedTask' = synced.task
      /\ collapsedTasks' = {}
      /\ newest' = IF r.seq > newest.seq
                   THEN [seq |-> r.seq, data |-> r.data] ELSE newest
      /\ reqs' = reqs \ {r}
      /\ last' = [kind |-> "fetchApplied", op |-> r.by, how |-> "ok"]
      /\ UNCHANGED <<cascadeVars, serverVars, modalVars, activeTab, authVars,
                     invalid, alert, clock, started, others>>

\* fetchLists, response ok: setLists(data), auto-select the first list when
\* the closure's selectedList is null, then the [lists] effect runs
fetchListsOk(r) ==
  LET picked == IF Len(r.data) > 0 /\ r.sel = NULL
                THEN r.data[1] ELSE selectedList
      synced == syncSelection(r.data, picked, selectedTask)
  IN  /\ lists' = r.data
      /\ selectedList' = synced.list
      /\ selectedTask' = synced.task
      /\ newest' = IF r.seq > newest.seq
                   THEN [seq |-> r.seq, data |-> r.data] ELSE newest
      /\ reqs' = reqs \ {r}
      /\ last' = [kind |-> "fetchApplied", op |-> r.by, how |-> "ok"]
      /\ UNCHANGED <<cascadeVars, serverVars, modalVars, viewVars, authVars,
                     invalid, alert, clock, started, others>>

\* fetchCurrentUser, response ok: setCurrentUser(data)
fetchCurrentUserOk(r) ==
  /\ currentUser' = "set"
  /\ reqs' = reqs \ {r}
  /\ last' = [kind |-> "meApplied", op |-> r.op, how |-> "ok"]
  /\ UNCHANGED <<cascadeVars, serverVars, selectionVars, modalVars, viewVars,
                 invalid, alert, loading, user, token, userStr, session,
                 location, authGuard, clock, started, others, newest>>

\* variant of the ok branch that forgets the refresh
refresh_Missing(r) ==
  /\ reqs' = reqs \ {r}
  /\ clock' = clock
  /\ invalid' = IF modal' = "none" THEN "none" ELSE invalid
  /\ last' = [kind |-> "mutationOk", op |-> r.op, how |-> "ok"]
  /\ UNCHANGED <<cascadeVars, serverVars, lists, viewVars, authVars, alert,
                 started, others, newest>>

\* the ok branch of a handler ends with fetchLists(); a form that the branch
\* closed takes the message on its input with it
refresh(r) ==
  /\ reqs' = (reqs \ {r}) \cup {fetchLists(r)}
  /\ clock' = clock + 1
  /\ invalid' = IF modal' = "none" THEN "none" ELSE invalid
  /\ last' = [kind |-> "mutationOk", op |-> r.op, how |-> "ok"]
  /\ UNCHANGED <<cascadeVars, serverVars, lists, viewVars, authVars, alert,
                 started, others, newest>>

handleCreateListOk(r) ==
  /\ modal' = closeModal("newList")
  /\ refresh(r)
  /\ UNCHANGED <<selectedList, selectedTask, listToEdit, subtaskParentId,
                 taskToMove>>

handleCreateTaskOk(r) ==
  /\ modal' = closeModal("newTask")
  /\ refresh(r)
  /\ UNCHANGED <<selectedList, selectedTask, listToEdit, subtaskParentId,
                 taskToMove>>

handleToggleTaskOk(r) ==
  /\ UNCHANGED <<selectedList, selectedTask, modalVars>>
  /\ refresh(r)

handleDeleteTaskOk(r) ==
  /\ UNCHANGED <<selectedList, modalVars>>
  /\ refresh(r)
  /\ selectedTask' = NoTask

handleCreateSubtaskOk(r) ==
  /\ modal' = closeModal("newSubtask")
  /\ subtaskParentId' = NULL
  /\ refresh(r)
  /\ UNCHANGED <<selectedList, selectedTask, listToEdit, taskToMove>>

handleMoveTaskOk(r) ==
  /\ modal' = closeModal("move")
  /\ taskToMove' = NoTask
  /\ refresh(r)
  /\ UNCHANGED <<selectedList, selectedTask, listToEdit, subtaskParentId>>

\* clears the selection when the closure's selectedList is the deleted list
handleDeleteListOk(r) ==
  /\ selectedList' = IF r.sel = r.a THEN NoList ELSE selectedList
  /\ UNCHANGED <<selectedTask, modalVars>>
  /\ refresh(r)

handleEditListOk(r) ==
  /\ modal' = closeModal("editList")
  /\ listToEdit' = NULL
  /\ refresh(r)
  /\ UNCHANGED <<selectedList, selectedTask, subtaskParentId, taskToMove>>

\* the awaited response of r arrived with response.ok
responseOk(r, op) ==
  /\ r.stage = "ok"
  /\ r.op = op

\* what the settled request was, for last
failureKind(r) ==
  CASE r.op = "fetch" -> "fetchFailed"
    [] r.op = "me" -> "meFailed"
    [] OTHER -> "mutationFailed"

\* the alert() of the failure path: only handleCreateList has one
alertOf(r, how) ==
  IF r.op = "createList"
  THEN IF how = "throw" THEN "network" ELSE "failed"
  ELSE "none"

\* variant of the failure path that empties the rendered lists
requestFailed_ClearsLists(r, how) ==
  /\ reqs' = reqs \ {r}
  /\ lists' = <<>>
  /\ alert' = alertOf(r, how)
  /\ last' = [kind |-> failureKind(r), op |-> r.op, how |-> how]
  /\ UNCHANGED <<cascadeVars, serverVars, selectedList, selectedTask,
                 modalVars, viewVars, authVars, invalid, clock, started,
                 others, newest>>

\* no branch of any handler runs for a response that is not ok, and the
\* catch branch only logs (handleCreateList also alerts in both)
requestFailed(r, how) ==
  /\ reqs' = reqs \ {r}
  /\ alert' = alertOf(r, how)
  /\ last' = [kind |-> failureKind(r), op |-> r.op, how |-> how]
  /\ UNCHANGED <<cascadeVars, serverVars, selectionVars, modalVars, viewVars,
                 authVars, invalid, clock, started, others, newest>>

\* the response arrived with response.ok false
responseNotOk(r) ==
  /\ r.stage \in {"notok", "unauthorized"}
  /\ requestFailed(r, r.stage)

\* fetch() rejects: the request or its response is lost
networkError(r) ==
  requestFailed(r, "throw")

\* ------------------------------------------------------------------------
\* Specification of the Dashboard against the server
\* ------------------------------------------------------------------------

NoCall == [task |-> NULL, value |-> FALSE, cascade |-> TRUE,
           changed |-> {}, before |-> <<>>]

NoCreation == [parent |-> NULL, id |-> NULL, before |-> <<>>]

NoFetch == [seq |-> 0, data |-> <<>>]

\* the client side before the Dashboard is mounted
DashboardIdle ==
  /\ lists = <<>>
  /\ selectedList = NoList
  /\ selectedTask = NoTask
  /\ modal = "none"
  /\ listToEdit = NULL
  /\ subtaskParentId = NULL
  /\ taskToMove = NoTask
  /\ activeTab = "active"
  /\ collapsedTasks = {}
  /\ currentUser = "none"
  /\ invalid = "none"
  /\ alert = "none"
  /\ clock = 0
  /\ started = 0
  /\ others = 0
  /\ newest = NoFetch

\* the auth context of a signed-in session after its mount effect, and the
\* Dashboard's guard effect past its fetches
SignedIn ==
  /\ loading = FALSE
  /\ user = spread("good", "alice")
  /\ token = "good"
  /\ userStr = "{alice}"
  /\ session = NoSession
  /\ location = "/dashboard"
  /\ authGuard = "loaded"

\* the mount effect of a signed-in session has called fetchLists() and
\* fetchCurrentUser(), and the latter has been answered
Init ==
  /\ srvLists = <<[id |-> 1, name |-> 0], [id |-> 2, name |-> 0]>>
  /\ nextList = 3
  /\ tasks = (1 :> [list |-> 1, parent |-> NULL, completed |-> FALSE])
          @@ (2 :> [list |-> 1, parent |-> 1, completed |-> FALSE])
  /\ nextTask = 3
  /\ call = NoCall
  /\ allCascade = TRUE
  /\ creation = NoCreation
  /\ lists = <<>>
  /\ selectedList = NoList
  /\ selectedTask = NoTask
  /\ modal = "none"
  /\ listToEdit = NULL
  /\ subtaskParentId = NULL
  /\ taskToMove = NoTask
  /\ activeTab = "active"
  /\ collapsedTasks = {}
  /\ currentUser = "set"
  /\ invalid = "none"
  /\ alert = "none"
  /\ SignedIn
  /\ reqs = {[seq |-> 1, op |-> "fetch", a |-> NULL, b |-> NULL,
              sel |-> NULL, stage |-> "sent", data |-> <<>>, by |-> "mount",
              token |-> "good"]}
  /\ clock = 1
  /\ started = 0
  /\ others = 0
  /\ newest = NoFetch
  /\ last = [kind |-> "init", op |-> "mount", how |-> "none"]

\* the forms with a required input
Forms == {"newList", "editList", "newTask", "newSubtask"}

Next ==
  \/ \E i \in DOMAIN lists : SelectList(i)
  \/ \E tab \in Tabs : setActiveTab(tab)
  \/ \E t \in DOMAIN selectedList.tasks : toggleCollapse(t)
  \/ \E i \in DOMAIN lists : handleDeleteList(i)
  \/ \E i \in DOMAIN lists : openEditListModal(i)
  \/ \E n \in Texts : handleEditList(n)
  \/ openModal
  \/ cancelModal
  \/ \E form \in Forms : submitBlocked(form)
  \/ \E n \in Texts : handleCreateList(n)
  \/ \E d \in Texts : handleCreateTask(d)
  \/ \E d \in Texts : handleCreateSubtask(d)
  \/ \E t \in DOMAIN selectedList.tasks : handleToggleTask(t)
  \/ \E t \in DOMAIN selectedList.tasks : handleDeleteTask(t)
  \/ \E l \in ListIds(lists) : handleMoveTask(l)
  \/ \E r \in reqs : serverHandle(r)
  \/ \E r \in reqs : serverReject(r)
  \/ \E l \in ListIds(srvLists) : otherSessionDeletes(l)
  \/ \E r \in reqs : responseOk(r, "fetch") /\ fetchListsOk(r)
  \/ \E r \in reqs : responseOk(r, "createList") /\ handleCreateListOk(r)
  \/ \E r \in reqs : responseOk(r, "editList") /\ handleEditListOk(r)
  \/ \E r \in reqs : responseOk(r, "deleteList") /\ handleDeleteListOk(r)
  \/ \E r \in reqs : responseOk(r, "createTask") /\ handleCreateTaskOk(r)
  \/ \E r \in reqs : responseOk(r, "createSubtask") /\ handleCreateSubtaskOk(r)
  \/ \E r \in reqs : responseOk(r, "toggle") /\ handleToggleTaskOk(r)
  \/ \E r \in reqs : responseOk(r, "deleteTask") /\ handleDeleteTaskOk(r)
  \/ \E r \in reqs : responseOk(r, "move") /\ handleMoveTaskOk(r)
  \/ \E r \in reqs : responseNotOk(r)
  \/ \E r \in reqs : networkError(r)

Spec == Init /\ [][Next]_vars

\* ------------------------------------------------------------------------
\* Specification of the Dashboard from its mount, with whatever session the
\* browser has stored
\* ------------------------------------------------------------------------

\* variant of the mount effect that reads the stored session without setUser
authProviderEffect_NoRestore ==
  /\ loading
  /\ IF truthy(token) /\ truthy(userStr)
     THEN IF JSON_parses(userStr)
          THEN UNCHANGED <<user, token, userStr>>
          ELSE token' = "none" /\ userStr' = "none" /\ UNCHANGED user
     ELSE UNCHANGED <<user, token, userStr>>
  /\ loading' = FALSE
  /\ last' = [kind |-> "auth", op |-> "mount",
              how |-> IF ~(truthy(token) /\ truthy(userStr)) THEN "none"
                      ELSE IF JSON_parses(userStr) THEN "parsed"
                      ELSE "caught"]
  /\ UNCHANGED <<cascadeVars, serverVars, selectionVars, modalVars, viewVars,
                 currentUser, invalid, alert, session, location, authGuard,
                 reqs, clock, started, others, newest>>

\* variant of the mount effect whose catch branch removes nothing
authProviderEffect_KeepsCorrupt ==
  /\ loading
  /\ IF truthy(token) /\ truthy(userStr)
     THEN IF JSON_parses(userStr)
          THEN /\ user' = spread(token, JSON_parse(userStr))
               /\ UNCHANGED <<token, userStr>>
          ELSE UNCHANGED <<user, token, userStr>>
     ELSE UNCHANGED <<user, token, userStr>>
  /\ loading' = FALSE
  /\ last' = [kind |-> "auth", op |-> "mount",
              how |-> IF ~(truthy(token) /\ truthy(userStr)) THEN "none"
                      ELSE IF JSON_parses(userStr) THEN "parsed"
                      ELSE "caught"]
  /\ UNCHANGED <<cascadeVars, serverVars, selectionVars, modalVars, viewVars,
                 currentUser, invalid, alert, session, location, authGuard,
                 reqs, clock, started, others, newest>>

\* AuthProvider's mount effect: read the stored session
authProviderEffect ==
  /\ loading
  /\ IF truthy(token) /\ truthy(userStr)
     THEN IF JSON_parses(userStr)
          THEN /\ user' = spread(token, JSON_parse(userStr))
               /\ UNCHANGED <<token, userStr>>
          ELSE token' = "none" /\ userStr' = "none" /\ UNCHANGED user
     ELSE UNCHANGED <<user, token, userStr>>
  /\ loading' = FALSE
  /\ last' = [kind |-> "auth", op |-> "mount",
              how |-> IF ~(truthy(token) /\ truthy(userStr)) THEN "none"
                      ELSE IF JSON_parses(userStr) THEN "parsed"
                      ELSE "caught"]
  /\ UNCHANGED <<cascadeVars, serverVars, selectionVars, modalVars, viewVars,
                 currentUser, invalid, alert, session, location, authGuard,
                 reqs, clock, started, others, newest>>

\* variant of the guard effect without its "if (loading) return"
authGuardEffect_NoLoadingCheck ==
  /\ location = "/dashboard"
  /\ authGuard = "idle" \/ (authGuard = "waiting" /\ ~loading)
  /\ IF ~isAuthenticated
     THEN /\ location' = "/login"
          /\ authGuard' = "redirected"
          /\ UNCHANGED <<reqs, clock>>
     ELSE /\ reqs' = reqs \cup
               {[seq |-> clock + 1, op |-> "fetch", a |-> NULL, b |-> NULL,
                 sel |-> selectedList.id, stage |-> "sent", data |-> <<>>,
                 by |-> "mount", token |-> token],
                [seq |-> clock + 2, op |-> "me", a |-> NULL, b |-> NULL,
                 sel |-> selectedList.id, stage |-> "sent", data |-> <<>>,
                 by |-> "mount", token |-> token]}
          /\ clock' = clock + 2
          /\ authGuard' = "loaded"
          /\ UNCHANGED location
  /\ last' = [kind |-> "guard", op |-> "mount", how |-> "none"]
  /\ UNCHANGED <<cascadeVars, serverVars, selectionVars, modalVars, viewVars,
                 currentUser, invalid, alert, loading, user, token, userStr,
                 session, started, others, newest>>

\* the Dashboard's auth guard effect: it runs at the mount and again when
\* loading has changed
authGuardEffect ==
  /\ location = "/dashboard"
  /\ authGuard = "idle" \/ (authGuard = "waiting" /\ ~loading)
  /\ IF loading
     THEN /\ authGuard' = "waiting"
          /\ UNCHANGED <<location, reqs, clock>>
     ELSE IF ~isAuthenticated
     THEN /\ location' = "/login"
          /\ authGuard' = "redirected"
          /\ UNCHANGED <<reqs, clock>>
     ELSE /\ reqs' = reqs \cup
               {[seq |-> clock + 1, op |-> "fetch", a |-> NULL, b |-> NULL,
                 sel |-> selectedList.id, stage |-> "sent", data |-> <<>>,
                 by |-> "mount", token |-> token],
                [seq |-> clock + 2, op |-> "me", a |-> NULL, b |-> NULL,
                 sel |-> selectedList.id, stage |-> "sent", data |-> <<>>,
                 by |-> "mount", token |-> token]}
          /\ clock' = clock + 2
          /\ authGuard' = "loaded"
          /\ UNCHANGED location
  /\ last' = [kind |-> "guard", op |-> "mount", how |-> "none"]
  /\ UNCHANGED <<cascadeVars, serverVars, selectionVars, modalVars, viewVars,
                 currentUser, invalid, alert, loading, user, token, userStr,
                 session, started, others, newest>>

\* the auth context and the Dashboard before their effects have run
NotMounted ==
  /\ loading = TRUE
  /\ user = NoUser
  /\ session = NoSession
  /\ location = "/dashboard"
  /\ authGuard = "idle"

\* what localStorage may hold when the page is opened
InitAuth ==
  /\ srvLists = <<[id |-> 1, name |-> 0], [id |-> 2, name |-> 0]>>
  /\ nextList = 3
  /\ tasks = (1 :> [list |-> 1, parent |-> NULL, completed |-> FALSE])
          @@ (2 :> [list |-> 1, parent |-> 1, completed |-> FALSE])
  /\ nextTask = 3
  /\ call = NoCall
  /\ allCascade = TRUE
  /\ creation = NoCreation
  /\ DashboardIdle
  /\ NotMounted
  /\ token \in {"none", "good", "stale"}
  /\ userStr \in {"none", "{alice}", "invalid-json"}
  /\ reqs = {}
  /\ last = [kind |-> "init", op |-> "none", how |-> "none"]

NextAuth ==
  \/ authProviderEffect
  \/ authGuardEffect
  \/ \E r \in reqs : serverUnauthorized(r)
  \/ \E r \in reqs : responseOk(r, "me") /\ fetchCurrentUserOk(r)
  \/ Next

SpecAuth == InitAuth /\ [][NextAuth]_vars

\* ------------------------------------------------------------------------
\* Specification of the auth context: page loads, sign-in and the
\* Dashboard's logout button
\* ------------------------------------------------------------------------

\* variant of login() that does not store the token
login_TokenNotStored(t, d) ==
  /\ UNCHANGED token
  /\ userStr' = JSON_stringify(d)
  /\ user' = spread(t, d)
  /\ session' = [token |-> t, data |-> d]

\* login(token, userData) of the auth context
login(t, d) ==
  /\ token' = t
  /\ userStr' = JSON_stringify(d)
  /\ user' = spread(t, d)
  /\ session' = [token |-> t, data |-> d]

\* variant of logout() that leaves the token in localStorage
logout_KeepsToken ==
  /\ UNCHANGED token
  /\ userStr' = "none"
  /\ user' = NoUser
  /\ session' = NoSession

\* variant of logout() without its setUser(null)
logout_KeepsUser ==
  /\ token' = "none"
  /\ userStr' = "none"
  /\ UNCHANGED user
  /\ session' = NoSession

\* logout() of the auth context
logout ==
  /\ token' = "none"
  /\ userStr' = "none"
  /\ user' = NoUser
  /\ session' = NoSession

\* the Dashboard is mounted: the initial values of its useState hooks
mountDashboard ==
  /\ lists' = <<>>
  /\ selectedList' = NoList
  /\ selectedTask' = NoTask
  /\ modal' = "none"
  /\ listToEdit' = NULL
  /\ subtaskParentId' = NULL
  /\ taskToMove' = NoTask
  /\ activeTab' = "active"
  /\ collapsedTasks' = {}
  /\ currentUser' = "none"
  /\ invalid' = "none"
  /\ alert' = "none"
  /\ newest' = NoFetch
  /\ authGuard' = "idle"

\* SignIn's handleSubmit, response ok: login(data?.access_token, data.user),
\* then navigate("/dashboard")
handleSubmitOk(t, d) ==
  /\ location = "/login"
  /\ ~loading
  /\ started < MaxLogin
  /\ login(t, d)
  /\ location' = "/dashboard"
  /\ mountDashboard
  /\ started' = started + 1
  /\ last' = [kind |-> "login", op |-> "handleSubmit", how |-> t]
  /\ UNCHANGED <<cascadeVars, serverVars, loading, reqs, clock, others>>

\* logout-button onClick
handleLogout ==
  /\ dashboardShown
  /\ modal = "none"
  /\ logout
  /\ location' = "/login"
  /\ last' = [kind |-> "logout", op |-> "handleLogout", how |-> "none"]
  /\ UNCHANGED <<cascadeVars, serverVars, selectionVars, modalVars, viewVars,
                 currentUser, invalid, alert, loading, authGuard, reqs, clock,
                 started, others, newest>>

Paths == {"/login", "/dashboard"}

\* the page is opened or reloaded at path: the pending fetches are aborted,
\* AuthProvider and the routed page are mounted anew
open(path) ==
  /\ loading' = TRUE
  /\ user' = NoUser
  /\ location' = path
  /\ mountDashboard
  /\ reqs' = {}
  /\ clock' = 0
  /\ started' = 0
  /\ last' = [kind |-> "open", op |-> path, how |-> "none"]
  /\ UNCHANGED <<cascadeVars, serverVars, token, userStr, session, others>>

\* what localStorage may hold, whoever wrote it
StoredTokens == {"none"} \cup Tokens

StoredUsers ==
  {"none", "", "invalid-json"} \cup {JSON_stringify(d) : d \in UserDatas}

\* a page is opened with whatever localStorage holds
InitProvider ==
  /\ srvLists = <<[id |-> 1, name |-> 0], [id |-> 2, name |-> 0]>>
  /\ nextList = 3
  /\ tasks = (1 :> [list |-> 1, parent |-> NULL, completed |-> FALSE])
          @@ (2 :> [list |-> 1, parent |-> 1, completed |-> FALSE])
  /\ nextTask = 3
  /\ call = NoCall
  /\ allCascade = TRUE
  /\ creation = NoCreation
  /\ DashboardIdle
  /\ loading = TRUE
  /\ user = NoUser
  /\ session = NoSession
  /\ location \in Paths
  /\ authGuard = "idle"
  /\ token \in StoredTokens
  /\ userStr \in StoredUsers
  /\ reqs = {}
  /\ last = [kind |-> "init", op |-> "none", how |-> "none"]

NextProvider ==
  \/ authProviderEffect
  \/ authGuardEffect
  \/ \E t \in Tokens, d \in UserDatas : handleSubmitOk(t, d)
  \/ handleLogout
  \/ \E path \in Paths : open(path)

SpecProvider == InitProvider /\ [][NextProvider]_vars

\* the first visit of a browser: nothing but the auth context ever writes
\* localStorage
InitSession ==
  /\ InitProvider
  /\ token = "none"
  /\ userStr = "none"

SpecSession == InitSession /\ [][NextProvider]_vars

\* ------------------------------------------------------------------------
\* Specification of the selection sync alone: a refresh arrives while some
\* list and task of the previous forest are selected
\* ------------------------------------------------------------------------

\* the "Back to Tasks" breadcrumb
backToTasks ==
  /\ modal = "none"
  /\ selectedTask # NoTask
  /\ selectedTask' = NoTask
  /\ click
  /\ UNCHANGED <<lists, selectedList, modalVars, viewVars, invalid>>

\* forests of ReconcileTasks tasks spread over lists 1 and 2
ReconcileForests ==
  {T \in [1..ReconcileTasks ->
            [list : {1, 2}, parent : 0..(ReconcileTasks - 1),
             completed : BOOLEAN]] :
     \A t \in 1..ReconcileTasks :
       /\ T[t].parent < t
       /\ T[t].parent # NULL => T[t].list = T[T[t].parent].list}

TwoLists == <<[id |-> 1, name |-> 0], [id |-> 2, name |-> 0]>>

\* what is left of forest T after some lists and some subtrees were deleted
Remaining(T, keptLists, keptTasks) ==
  /\ \A t \in keptTasks :
       /\ T[t].list \in keptLists
       /\ T[t].parent # NULL => T[t].parent \in keptTasks

InitReconcile ==
  \E T \in ReconcileForests, keptLists \in SUBSET {1, 2},
     keptTasks \in SUBSET (1..ReconcileTasks) :
    /\ Remaining(T, keptLists, keptTasks)
    /\ lists = getLists(TwoLists, T)
    /\ \E i \in 1..2 : selectedList = lists[i]
    /\ \E t \in DOMAIN selectedList.tasks :
         selectedTask = taskObject(selectedList.tasks, t)
    /\ srvLists = SelectSeq(TwoLists, LAMBDA x : x.id \in keptLists)
    /\ tasks = Restrict(T, keptTasks)
    /\ nextList = 3
    /\ nextTask = ReconcileTasks + 1
    /\ reqs = {[seq |-> 2, op |-> "fetch", a |-> NULL, b |-> NULL,
                sel |-> selectedList.id, stage |-> "ok",
                data |-> getLists(srvLists, tasks), by |-> "deleteTask",
                token |-> "good"]}
    /\ clock = 2
    /\ started = MaxReq
    /\ others = 0
    /\ newest = [seq |-> 1, data |-> lists]
    /\ modal = "none"
    /\ listToEdit = NULL
    /\ subtaskParentId = NULL
    /\ taskToMove = NoTask
    /\ call = NoCall
    /\ allCascade = TRUE
    /\ creation = NoCreation
    /\ activeTab = "active"
    /\ collapsedTasks = {}
    /\ currentUser = "set"
    /\ invalid = "none"
    /\ alert = "none"
    /\ SignedIn
    /\ last = [kind |-> "init", op |-> "none", how |-> "none"]

NextReconcile ==
  \/ \E r \in reqs : responseOk(r, "fetch") /\ fetchListsOk(r)
  \/ \E i \in DOMAIN lists : SelectList(i)
  \/ backToTasks

SpecReconcile == InitReconcile /\ [][NextReconcile]_vars

\* ------------------------------------------------------------------------
\* Specification of the rendering alone: any forest over two lists, any
\* selection, tab and collapse flags
\* ------------------------------------------------------------------------

InitView ==
  \E T \in ReconcileForests :
    /\ srvLists = TwoLists
    /\ tasks = T
    /\ nextList = 3
    /\ nextTask = ReconcileTasks + 1
    /\ call = NoCall
    /\ allCascade = TRUE
    /\ creation = NoCreation
    /\ lists = getLists(TwoLists, T)
    /\ selectedList \in {NoList} \cup {lists[i] : i \in DOMAIN lists}
    /\ selectedTask = NoTask
    /\ modal = "none"
    /\ listToEdit = NULL
    /\ subtaskParentId = NULL
    /\ taskToMove = NoTask
    /\ activeTab = "active"
    /\ collapsedTasks = {}
    /\ currentUser = "set"
    /\ invalid = "none"
    /\ alert = "none"
    /\ clock = 1
    /\ started = 0
    /\ others = 0
    /\ newest = [seq |-> 1, data |-> lists]
    /\ SignedIn
    /\ reqs = {}
    /\ last = [kind |-> "init", op |-> "none", how |-> "none"]

NextView ==
  \/ \E i \in DOMAIN lists : SelectList(i)
  \/ \E tab \in Tabs : setActiveTab(tab)
  \/ \E t \in DOMAIN selectedList.tasks : toggleCollapse(t)

SpecView == InitView /\ [][NextView]_vars

\* ------------------------------------------------------------------------
\* Specification of the Dashboard while the DELETE of a list is in flight
\* ------------------------------------------------------------------------

\* the mount fetch was applied, the user selected list c, clicked the delete
\* button of list 1 and then selected a list again; started counts the
\* requests started after that
InitMove ==
  /\ srvLists = TwoLists
  /\ nextList = 3
  /\ tasks = (1 :> [list |-> 1, parent |-> NULL, completed |-> FALSE])
  /\ nextTask = 2
  /\ call = NoCall
  /\ allCascade = TRUE
  /\ creation = NoCreation
  /\ lists = getLists(srvLists, tasks)
  /\ \E i \in DOMAIN lists : selectedList = lists[i]
  /\ selectedTask = NoTask
  /\ modal = "none"
  /\ listToEdit = NULL
  /\ subtaskParentId = NULL
  /\ taskToMove = NoTask
  /\ activeTab = "active"
  /\ collapsedTasks = {}
  /\ currentUser = "set"
  /\ invalid = "none"
  /\ alert = "none"
  /\ SignedIn
  /\ \E c \in ListIds(lists) :
       reqs = {[seq |-> 2, op |-> "deleteList", a |-> 1, b |-> NULL,
                sel |-> c, stage |-> "sent", data |-> <<>>,
                by |-> "deleteList", token |-> "good"]}
  /\ clock = 2
  /\ started = 0
  /\ others = 0
  /\ newest = [seq |-> 1, data |-> lists]
  /\ last = [kind |-> "issue", op |-> "deleteList", how |-> "none"]

SpecMove == InitMove /\ [][Next]_vars

\* ------------------------------------------------------------------------
\* Claims about the Dashboard
\* ------------------------------------------------------------------------

\* the step is the continuation of a settled request, described by last'
Settled(kinds) == reqs' # reqs /\ last'.kind \in kinds

\* C4: lists always holds the data of the latest-issued fetch applied so
\* far: a response of an earlier-issued fetch arriving later is discarded.
C4_NewestFetchWins == lists = newest.data

\* C5: across every refresh and every mutation completion a selected list
\* that still exists (on the server and in the client's lists) stays
\* selected: the selection is neither cleared nor moved to another id.
C5_SelectionKept ==
  [][(/\ Settled({"fetchApplied", "fetchFailed", "mutationOk",
                  "mutationFailed"})
      /\ selectedList # NoList
      /\ selectedList.id \in ListIds(lists')
      /\ selectedList.id \in ListIds(srvLists'))
     => selectedList'.id = selectedList.id]_vars

\* C6: after a refresh is applied the client holds no selected list whose
\* id is absent from lists: such a selection has become null.
C6_DeletedSelectionCleared ==
  [][Settled({"fetchApplied"})
     => (selectedList' = NoList \/ selectedList'.id \in ListIds(lists'))]_vars

C8_RefreshAfterSuccess ==
  [][/\ Settled({"mutationOk"}) =>
          \E f \in reqs' \ reqs :
            /\ reqs' \ reqs = {f}
            /\ f.op = "fetch" /\ f.stage = "sent" /\ f.by = last'.op
     /\ Settled({"mutationFailed"}) => reqs' \subseteq reqs]_vars

\* a move succeeded and its refresh is on its way
C8_Witness ==
  /\ last.kind = "mutationOk" /\ last.op = "move"
  /\ \E f \in reqs : f.op = "fetch" /\ f.by = "move" /\ f.stage = "sent"
  /\ \E t \in DOMAIN tasks : tasks[t].list = 2

\* C9: a failed fetch or mutating request leaves lists and selectedList
\* exactly as they were.
C9_FailureLeavesStateUntouched ==
  [][Settled({"fetchFailed", "mutationFailed"})
     => (lists' = lists /\ selectedList' = selectedList)]_vars

\* a task deletion failed while a list with tasks was shown
C9_Witness ==
  /\ last.kind = "mutationFailed" /\ last.op = "deleteTask"
  /\ lists # <<>>
  /\ selectedList # NoList
  /\ DOMAIN selectedList.tasks # {}

\* C13: every move request in flight, and the task chosen in the Move
\* modal, is a task without a parent: no move is issued for a subtask.
C13_MoveOnlyTopLevel ==
  /\ \A r \in reqs :
       (r.op = "move" /\ r.a \in DOMAIN tasks) => tasks[r.a].parent = NULL
  /\ taskToMove # NoTask => taskToMove.parent = NULL

\* a move of a task that has a subtask is on its way
C13_Witness ==
  \E r \in reqs :
    /\ r.op = "move" /\ r.stage = "sent"
    /\ r.a \in DOMAIN tasks
    /\ Children(tasks, r.a) # {}

\* list sl with the completed flag of the tasks S flipped
withFlipped(sl, S) ==
  [sl EXCEPT !.tasks =
     [t \in DOMAIN sl.tasks |->
        IF t \in S THEN [sl.tasks[t] EXCEPT !.completed = ~sl.tasks[t].completed]
        ELSE sl.tasks[t]]]

\* the top-level tasks and the subtasks of the selected list
topLevel == Children(selectedList.tasks, NULL)
subtasksAtAnyDepth == DOMAIN selectedList.tasks \ topLevel

\* C14: the Active and Completed counts are the numbers of top-level tasks
\* of the selected list with completed=false and completed=true, they sum to
\* the number of top-level tasks, flipping the flags of any subtasks changes
\* neither, and both are 0 when no list is selected.
C14_ShallowCounts ==
  LET F == selectedList.tasks
      c == getTaskCounts(selectedList)
  IN  /\ c.active = Cardinality({t \in topLevel : ~F[t].completed})
      /\ c.completed = Cardinality({t \in topLevel : F[t].completed})
      /\ c.active + c.completed = Cardinality(topLevel)
      /\ \A S \in SUBSET subtasksAtAnyDepth :
           getTaskCounts(withFlipped(selectedList, S)) = c
      /\ selectedList = NoList => (c.active = 0 /\ c.completed = 0)

\* one complete and one active top-level task, and a subtask whose flag
\* differs from its parent's
C14_Witness ==
  /\ selectedList # NoList
  /\ getTaskCounts(selectedList) = [active |-> 1, completed |-> 1]
  /\ \E t \in subtasksAtAnyDepth :
       selectedList.tasks[t].completed
         # selectedList.tasks[selectedList.tasks[t].parent].completed

\* the top-level tasks displayed under tab
displayed(tab) ==
  {getListTasks(selectedList, tab)[i] :
     i \in DOMAIN getListTasks(selectedList, tab)}

\* the chosen tab displays the top-level tasks with its completed value
tabShowsItsTasks ==
  displayed(activeTab) =
    {t \in topLevel :
       selectedList.tasks[t].completed = (activeTab = "completed")}

\* C15: the Active tab displays exactly the top-level tasks of the selected
\* list with completed=false and the Completed tab exactly those with
\* completed=true, every top-level task is under exactly one of the tabs,
\* and a step that switches the tab changes neither lists nor the selection.
C15_TabsPartitionTopLevel ==
  [][/\ tabShowsItsTasks
     /\ tabShowsItsTasks'
     /\ displayed("active") \cup displayed("completed") = topLevel
     /\ displayed("active") \cap displayed("completed") = {}
     /\ activeTab' # activeTab =>
          UNCHANGED <<lists, selectedList, selectedTask>>]_vars

\* the Completed tab shows some of the top-level tasks and hides others
C15_Witness ==
  /\ activeTab = "completed"
  /\ displayed("completed") # {}
  /\ displayed("active") # {}

\* C16: a step that applies a refresh, issues or settles a request, or
\* changes the server's forest leaves every collapse flag as it was, and a
\* step that changes a collapse flag changes the flag of one task only.
C16_CollapseOnlyByToggle ==
  [][/\ (reqs' # reqs \/ lists' # lists \/ tasks' # tasks
           \/ srvLists' # srvLists \/ selectedList' # selectedList)
          => collapsedTasks' = collapsedTasks
     /\ collapsedTasks' # collapsedTasks =>
          \E t \in DOMAIN selectedList.tasks :
            /\ Children(selectedList.tasks, t) # {}
            /\ (collapsedTasks' \ collapsedTasks)
                 \cup (collapsedTasks \ collapsedTasks') = {t}]_vars

\* the refresh of a toggle was applied while a task was collapsed
C16_Witness ==
  /\ last.kind = "fetchApplied" /\ last.op = "toggle"
  /\ collapsedTasks # {}
  /\ collapsedTasks \subseteq DOMAIN selectedList.tasks

\* the operations issued by submitting a form
FormOps == {"createList", "editList", "createTask", "createSubtask"}

\* C17: every create-list, edit-list, create-task and create-subtask request
\* carries a non-empty text, and the step that rejects a submission with an
\* empty required field issues no request and leaves that form open.
C17_RequiredFieldsBlockSubmit ==
  [][/\ \A r \in reqs' \ reqs : r.op \in FormOps => r.b \in Names
     /\ (invalid' # invalid /\ invalid' # "none") =>
          /\ reqs' = reqs
          /\ started' = started
          /\ modal' = modal
          /\ modal' = invalid']_vars

\* an empty New Task form was submitted: nothing was issued, the form is open
C17_Witness ==
  /\ invalid = "newTask"
  /\ modal = "newTask"
  /\ started = 0
  /\ reqs = {}

\* C18: while the auth context is loading there is no request and no
\* redirect; without a stored credential no request is ever issued, and
\* once the guard effect has run after the loading the path is /login.
C18_NoCredentialNoFetch ==
  /\ loading => (reqs = {} /\ clock = 0 /\ location = "/dashboard")
  /\ token = "none" => (reqs = {} /\ clock = 0)
  /\ (token = "none" /\ authGuard \notin {"idle", "waiting"})
       => (authGuard = "redirected" /\ location = "/login")

\* no token but a stored user: the guard has redirected without a fetch
C18_Witness ==
  /\ token = "none" /\ userStr = "{alice}"
  /\ ~loading
  /\ authGuard = "redirected" /\ location = "/login"
  /\ clock = 0

\* C19: the step that settles a request the server answered as unauthorized
\* sets the path to /login and issues no request.
C19_UnauthorizedRedirects ==
  [][(/\ Settled({"fetchFailed", "mutationFailed"})
      /\ last'.how = "unauthorized")
     => (location' = "/login" /\ reqs' \subseteq reqs)]_vars

\* C20: the step that settles a mutating request that failed with a network
\* error shows a message.
C20_NetworkErrorShown ==
  [][(Settled({"mutationFailed"}) /\ last'.how = "throw")
     => alert' # "none"]_vars

\* C25: once a fetch has been applied, a selected list whose id is in lists
\* is the entry of lists with that id, the object of the latest applied
\* fetch.
C25_SelectedListIsFetchedEntry ==
  (newest.seq > 0 /\ selectedList # NoList
     /\ selectedList.id \in ListIds(lists))
    => \E i \in DOMAIN lists : selectedList = lists[i]

\* the refresh after a toggle was applied: the selected list carries the
\* completed flag the refresh brought
C25_Witness ==
  /\ last.kind = "fetchApplied" /\ last.op = "toggle"
  /\ selectedList # NoList
  /\ \E i \in DOMAIN lists : selectedList = lists[i]
  /\ \E t \in DOMAIN selectedList.tasks : selectedList.tasks[t].completed

\* C26: the step that applies a fetched response with at least one list
\* selects the first list of the response when no list is selected at that
\* moment, and does not change which list is selected otherwise.
C26_AutoSelectWhenNoneSelected ==
  [][(Settled({"fetchApplied"}) /\ Len(lists') > 0)
       => IF selectedList = NoList
          THEN selectedList' = lists'[1]
          ELSE selectedList'.id = selectedList.id]_vars

\* C29: a move request that is issued names a list other than the one that
\* holds the moved task in lists.
C29_MoveToAnotherList ==
  [][\A r \in reqs' \ reqs :
       (r.op = "move" /\ r.stage = "sent")
         => \A i \in DOMAIN lists :
              r.a \in DOMAIN lists[i].tasks => lists[i].id # r.b]_vars

\* C28: no task is ever selected.
C28_NoTaskEverSelected == selectedTask = NoTask

\* a task of the selected list was deleted and the refresh was applied: the
\* delete handler and the selection sync have both run
C28_Witness ==
  /\ last.kind = "fetchApplied" /\ last.op = "deleteTask"
  /\ selectedList # NoList
  /\ selectedTask = NoTask

\* ------------------------------------------------------------------------
\* Specification of the engine alone: any forest, any sequence of calls
\* ------------------------------------------------------------------------

ForestsOf(n) ==
  {f \in [1..n -> 0..(n - 1)] : \A t \in 1..n : f[t] < t}

Forests == ForestsOf(TreeSize)

InitCascade ==
  /\ \E f \in Forests :
       tasks = [t \in 1..TreeSize |->
                  [list |-> 1, parent |-> f[t], completed |-> FALSE]]
  /\ call = NoCall
  /\ allCascade = TRUE
  /\ creation = NoCreation
  /\ srvLists = <<[id |-> 1, name |-> 0]>>
  /\ nextList = 2
  /\ nextTask = TreeSize + 1
  /\ DashboardIdle
  /\ NotMounted
  /\ token = "none"
  /\ userStr = "none"
  /\ reqs = {}
  /\ last = [kind |-> "init", op |-> "none", how |-> "none"]

ToggleCall(t, v, c) ==
  LET r == toggleCompletion(tasks, t, v, c)
  IN  /\ tasks' = r.tree
      /\ call' = [task |-> t, value |-> v, cascade |-> c,
                  changed |-> r.changed, before |-> tasks]
      /\ allCascade' = (allCascade /\ c)
      /\ creation' = NoCreation
      /\ UNCHANGED <<serverVars, selectionVars, modalVars, viewVars, authVars,
                     invalid, alert, reqs, clock, started, others, newest,
                     last>>

NextCascade == \E t \in DOMAIN tasks, v \in BOOLEAN, c \in BOOLEAN : ToggleCall(t, v, c)

SpecCascade == InitCascade /\ [][NextCascade]_vars

\* ------------------------------------------------------------------------
\* Specification of subtask creation: any forest, toggles and creations
\* ------------------------------------------------------------------------

InitCreate ==
  /\ \E f \in ForestsOf(CreateSize) :
       tasks = [t \in 1..CreateSize |->
                  [list |-> 1, parent |-> f[t], completed |-> FALSE]]
  /\ call = NoCall
  /\ allCascade = TRUE
  /\ creation = NoCreation
  /\ srvLists = <<[id |-> 1, name |-> 0]>>
  /\ nextList = 2
  /\ nextTask = CreateSize + 1
  /\ DashboardIdle
  /\ NotMounted
  /\ token = "none"
  /\ userStr = "none"
  /\ reqs = {}
  /\ last = [kind |-> "init", op |-> "none", how |-> "none"]

\* a subtask is created under p
CreateSubtaskCall(p) ==
  /\ nextTask <= CreateSize + MaxNew
  /\ tasks' = addSubtask(tasks, p, nextTask)
  /\ nextTask' = nextTask + 1
  /\ creation' = [parent |-> p, id |-> nextTask, before |-> tasks]
  /\ call' = NoCall
  /\ UNCHANGED <<allCascade, srvLists, nextList, selectionVars, modalVars,
                 viewVars, authVars, invalid, alert, reqs, clock, started,
                 others, newest, last>>

NextCreate ==
  \/ \E t \in DOMAIN tasks, v \in BOOLEAN, c \in BOOLEAN : ToggleCall(t, v, c)
  \/ \E p \in DOMAIN tasks : CreateSubtaskCall(p)

SpecCreate == InitCreate /\ [][NextCreate]_vars

\* ------------------------------------------------------------------------
\* Claims about the cascade engine
\* ------------------------------------------------------------------------

Called == call.task # NULL

Subtree(T, t) == {t} \cup Descendants(T, t)

\* C1: after every call of a cascade=true-only sequence, every task with at
\* least one child is complete if and only if all its direct children are.
C1_InvariantPreserved ==
  (Called /\ allCascade) =>
    \A t \in DOMAIN tasks :
      Children(tasks, t) # {} =>
        (tasks[t].completed <=> AllChildrenComplete(tasks, t))

\* the rule's outcome at ancestor a, relative to the flags before the call
RuleHoldsAt(a) ==
  /\ AllChildrenComplete(tasks, a) => tasks[a].completed
  /\ (call.before[a].completed /\ ~AllChildrenComplete(tasks, a))
       => ~tasks[a].completed

\* C2 (as stated): after a call the rule's outcome holds at every ancestor
\* of the toggled task, from the parent up to the root.
C2_EveryAncestorRederived ==
  Called => \A a \in Ancestors(tasks, call.task) : RuleHoldsAt(a)

\* ancestors the walk visits: every ancestor strictly below a changed its flag
Walked(a) ==
  \A b \in Ancestors(tasks, call.task) :
    a \in Ancestors(tasks, b) =>
      tasks[b].completed # call.before[b].completed

\* C2 (amended): the rule's outcome holds at every ancestor from the parent
\* up to and including the first one whose flag does not change; in
\* particular it always holds at the parent.
C2_WalkedAncestorsRederived ==
  Called => \A a \in Ancestors(tasks, call.task) : Walked(a) => RuleHoldsAt(a)

\* a call that un-completed the parent and the grandparent of the target
C2_Witness ==
  /\ Called
  /\ ~call.value
  /\ \E a \in Ancestors(tasks, call.task) :
       /\ a # tasks[call.task].parent
       /\ Walked(a)
       /\ call.before[a].completed /\ ~tasks[a].completed

\* C3 (as stated): a cascade toggle to true changes exactly the N+1 ids of
\* the task and its N descendants, all set to true, whatever the prior flags.
C3_ExactlySubtreeChanged ==
  (Called /\ call.value /\ call.cascade) =>
    /\ call.changed = Subtree(tasks, call.task)
    /\ Cardinality(call.changed) =
         Cardinality(Descendants(tasks, call.task)) + 1
    /\ \A x \in call.changed : tasks[x].completed

\* C3 (amended): the changed set holds the task and its N descendants (N+1
\* ids inside the subtree), all of them now true, and outside the subtree
\* exactly the ancestors whose flag the upward re-derivation changed.
C3_SubtreePlusChangedAncestors ==
  (Called /\ call.value /\ call.cascade) =>
    LET sub == Subtree(tasks, call.task)
    IN  /\ sub \subseteq call.changed
        /\ Cardinality(call.changed \cap sub) =
             Cardinality(Descendants(tasks, call.task)) + 1
        /\ \A x \in sub : tasks[x].completed
        /\ call.changed \ sub =
             {a \in Ancestors(tasks, call.task) :
                tasks[a].completed # call.before[a].completed}

\* a cascade toggle to true over a grandchild that was incomplete, which
\* also auto-completed an ancestor
C3_Witness ==
  /\ Called /\ call.value /\ call.cascade
  /\ \E c \in Children(tasks, call.task) :
       \E g \in Children(tasks, c) : ~call.before[g].completed
  /\ call.changed \ Subtree(tasks, call.task) # {}

\* C10: repeating toggleCompletion(task, true, cascade=true) right after it
\* completed leaves every task's completed flag as the first call left it.
C10_Idempotent ==
  (Called /\ call.value /\ call.cascade) =>
    toggleCompletion(tasks, call.task, TRUE, TRUE).tree = tasks

\* a cascade toggle to true that changed descendants and an ancestor
C10_Witness ==
  /\ Called /\ call.value /\ call.cascade
  /\ \E d \in Descendants(tasks, call.task) : ~call.before[d].completed
  /\ \E a \in Ancestors(tasks, call.task) :
       tasks[a].completed # call.before[a].completed

\* C11: a call changes the completed flag only of the target, of its
\* descendants (only when it cascades to true) and of its strict ancestors:
\* every task in a sibling branch of the target or of an ancestor, and every
\* task of another tree of the forest (another list's tasks are other trees,
\* a subtask being in its parent's list), keeps its flag.
C11_OnlyTargetSubtreeAncestors ==
  Called =>
    \A x \in DOMAIN tasks :
      tasks[x].completed # call.before[x].completed =>
        \/ x = call.task
        \/ x \in Ancestors(tasks, call.task)
        \/ (call.cascade /\ call.value /\ x \in Descendants(tasks, call.task))

\* un-completing a task un-completed its parent beside a complete sibling
\* that has a subtask of its own
C11_Witness ==
  /\ Called /\ ~call.value
  /\ \E a \in Ancestors(tasks, call.task) :
       call.before[a].completed /\ ~tasks[a].completed
  /\ \E s \in Children(tasks, tasks[call.task].parent) \ {call.task} :
       /\ tasks[s].completed
       /\ Children(tasks, s) # {}

\* a subtask was created, under a parent that was complete
Created == creation.id # NULL
UnderComplete == Created /\ creation.before[creation.parent].completed

\* C12 (as stated): after a new subtask is created under a complete task
\* the parent is incomplete, so is every ancestor that was complete, and no
\* task is complete while one of its direct children is incomplete.
C12_EveryCompleteAncestorUncompleted ==
  UnderComplete =>
    /\ ~tasks[creation.parent].completed
    /\ \A a \in Ancestors(tasks, creation.id) :
         creation.before[a].completed => ~tasks[a].completed
    /\ \A t \in DOMAIN tasks :
         tasks[t].completed => AllChildrenComplete(tasks, t)

\* ancestor a of the new task and every ancestor below it were complete
CompleteUpTo(a) ==
  \A b \in Ancestors(tasks, creation.id) :
    (b = a \/ a \in Ancestors(tasks, b)) => creation.before[b].completed

\* C12 (amended): the parent is incomplete and so is every ancestor up to
\* the first one that was already incomplete; when every toggle so far
\* cascaded, that covers every ancestor that was complete, and no task is
\* complete while one of its direct children is incomplete.
C12_WalkedAncestorsUncompleted ==
  UnderComplete =>
    /\ ~tasks[creation.parent].completed
    /\ \A a \in Ancestors(tasks, creation.id) :
         CompleteUpTo(a) => ~tasks[a].completed
    /\ allCascade =>
         /\ \A a \in Ancestors(tasks, creation.id) :
              creation.before[a].completed => ~tasks[a].completed
         /\ \A t \in DOMAIN tasks :
              tasks[t].completed => AllChildrenComplete(tasks, t)

\* a subtask created under a complete task whose parent was complete too
C12_Witness ==
  /\ UnderComplete
  /\ allCascade
  /\ \E a \in Ancestors(tasks, creation.parent) :
       creation.before[a].completed /\ ~tasks[a].completed

\* every task with a child is complete exactly when all its children are
Consistent(T) ==
  \A t \in DOMAIN T :
    Children(T, t) # {} => (T[t].completed <=> AllChildrenComplete(T, t))

\* C27, as stated: on every forest a call leaves the flags that the same
\* call would leave if it applied the rule at every ancestor up to the root.
C27_EarlyStopSound ==
  Called =>
    tasks = toggleToRoot(call.before, call.task, call.value, call.cascade)

\* C27, amended: the same on every forest in which every task with a child
\* is complete exactly when all its direct children are.
C27_EarlyStopSoundWhenConsistent ==
  (Called /\ Consistent(call.before)) =>
    tasks = toggleToRoot(call.before, call.task, call.value, call.cascade)

\* a call on such a forest that changed a flag and whose walk stopped at an
\* ancestor below the root
C27_Witness ==
  /\ Called /\ Consistent(call.before)
  /\ tasks # call.before
  /\ \E a \in Ancestors(tasks, call.task) :
       /\ tasks[a].parent # NULL
       /\ Walked(a)
       /\ tasks[a].completed = call.before[a].completed

\* ------------------------------------------------------------------------
\* Claims about the auth context
\* ------------------------------------------------------------------------

\* C21: a login with a non-empty token leaves isAuthenticated() true, a
\* logout leaves it false, and a step that is neither a call nor a mount
\* does not change it.
C21_AuthenticatedIffLastCallLogin ==
  [][/\ (last'.kind = "login" /\ last'.how # "") => isAuthenticated'
     /\ last'.kind = "logout" => ~isAuthenticated'
     /\ last'.kind = "guard" => (isAuthenticated' <=> isAuthenticated)]_vars

\* the second sign-in of a page, after a logout, is authenticated
C21_Witness ==
  /\ last.kind = "login" /\ last.how # ""
  /\ started = MaxLogin
  /\ isAuthenticated

\* C22: after a logout the user is null, localStorage holds neither key and
\* isAuthenticated() is false; the Dashboard's logout button also leaves
\* the path at /login.
C22_LogoutClearsSession ==
  [][last'.kind = "logout"
       => /\ user' = NoUser
          /\ token' = "none" /\ userStr' = "none"
          /\ ~isAuthenticated'
          /\ location' = "/login"]_vars

\* the logout button was clicked while the mount fetches were pending
C22_Witness ==
  /\ last.kind = "logout"
  /\ reqs # {}
  /\ user = NoUser /\ token = "none" /\ userStr = "none"
  /\ location = "/login"

\* the mount effect has just run in a page opened after the login
remounted == last.kind = "auth"

\* C23, as stated: after login(token, user) without a logout the user is
\* {token, ...user} whenever the auth context has loaded, and after a
\* fresh mount isAuthenticated() is true.
C23_LoginSurvivesReload ==
  (session # NoSession /\ ~loading)
    => /\ user = spread(session.token, session.data)
       /\ remounted => isAuthenticated

\* C23, amended: the same for a login with a non-empty token and a user
\* that is not undefined.
C23_JsonLoginSurvivesReload ==
  (session # NoSession /\ ~loading
     /\ session.token # "" /\ session.data # "undefined")
    => /\ user = spread(session.token, session.data)
       /\ remounted => isAuthenticated

\* a signed-in session was restored by the mount effect of a new page
C23_Witness ==
  /\ remounted /\ last.how = "parsed"
  /\ session # NoSession
  /\ session.token # "" /\ session.data # "undefined"
  /\ user = spread(session.token, session.data)
  /\ isAuthenticated

\* what the mount effect leaves when the stored session does not parse
sessionDropped ==
  /\ user' = NoUser
  /\ token' = "none" /\ userStr' = "none"
  /\ ~loading'
  /\ ~isAuthenticated'

\* C24, as stated: the mount effect of a page whose localStorage holds an
\* access_token entry and a user entry that is not JSON leaves the user
\* null, removes both entries and ends the loading.
C24_CorruptSessionCleared ==
  [][(last'.kind = "auth" /\ token # "none" /\ userStr # "none"
        /\ ~JSON_parses(userStr))
       => sessionDropped]_vars

\* C24, amended: the same when neither entry is the empty string.
C24_NonEmptyCorruptSessionCleared ==
  [][(last'.kind = "auth" /\ truthy(token) /\ truthy(userStr)
        /\ ~JSON_parses(userStr))
       => sessionDropped]_vars

\* the catch branch of the mount effect has run
C24_Witness ==
  /\ last.kind = "auth" /\ last.how = "caught"
  /\ user = NoUser /\ token = "none" /\ userStr = "none"
  /\ ~loading

\* the key is in localStorage
present(s) == s # "none"

\* C30, as stated: a non-null user implies both keys are in localStorage,
\* and once loading is false both keys imply a non-null user.
C30_UserIffStored ==
  /\ user # NoUser => (present(token) /\ present(userStr))
  /\ (~loading /\ present(token) /\ present(userStr)) => user # NoUser

\* C30, amended: the second half for an access_token that is not the
\* empty string.
C30_UserIffNonEmptyStored ==
  /\ user # NoUser => (present(token) /\ present(userStr))
  /\ (~loading /\ truthy(token) /\ present(userStr)) => user # NoUser

\* a page opened on a stored session has restored the user
C30_Witness ==
  /\ ~loading
  /\ last.kind = "auth"
  /\ truthy(token) /\ present(userStr)
  /\ user # NoUser

====
